---- MODULE Spec2Model ----
(***************************************************************************)
(* Transports (SerialManager, WifiManager), their reader threads and the   *)
(* router operations of Esp32DeckApp in src/Stream-Deck-Esp32.py.          *)
(*                                                                         *)
(* Thread 0 is the control (Tk main) thread; thread c in 1..MaxConn is the *)
(* reader thread started by the c-th connection.  A thread's position is   *)
(* pc[t] = [l |-> label, k |-> manager it is executing a method of].       *)
(* A channel handle (serial.Serial / socket.socket object) is a number in  *)
(* 1..MaxConn, 0 models None.  Threads interleave at every statement that  *)
(* reads or writes a field of a manager; no timing is assumed.             *)
(*                                                                         *)
(* Spec      connect / disconnect / type switch, with the status callback  *)
(* SpecSend  the same with the LED operations and the lines written        *)
(* SpecRead  the same with the reader threads taking and delivering lines  *)
(* SpecFrame the framing of one inbound byte stream into lines             *)
(* SpecBtn   the dispatch of inbound lines to ActionManager.perform        *)
(* SpecPerform  ActionManager.perform on actions of every kind, macros     *)
(* SpecToggle   WindowManager.toggle_application on a desktop of windows   *)
(* SpecSearch   WifiManager.search_device and the datagrams it receives    *)
(***************************************************************************)
EXTENDS Integers, Sequences, FiniteSets, TLC

\* ---------------------------------------------------------------- bounds
MaxConn == 2      \* connection attempts that create a channel handle
MaxLines == 2     \* inbound lines the peer sends on one connection
MaxSend == 1      \* LED / ALL_LED / direct send calls from the control thread
MaxBytes == 4     \* length of the inbound byte stream
MaxMsgs == 3      \* inbound lines dispatched to _process_button_message
MaxSteps == 3     \* steps of a macro list
MaxCalls == 2     \* perform() calls made one after the other
MaxWins == 3      \* window handles on the desktop
MaxDgrams == 2    \* datagrams received by one search

BUTTON_COUNT == 16

S == "Serial"
W == "Wi-Fi"
Kinds == {S, W}
Handles == 1..MaxConn
Threads == 0..MaxConn

VARIABLES
  running,      \* [Kinds -> BOOLEAN]        self._running
  isConnected,  \* [Kinds -> BOOLEAN]        self._is_connected
  chan,         \* [Kinds -> 0..MaxConn]     self._serial / self._socket
  hstate,       \* [Handles -> "unused" | "open" | "closed"]
  hkind,        \* [Handles -> Kinds]        manager that created the handle
  broken,       \* [Handles -> BOOLEAN]      I/O on the handle fails
  nconn,        \* handles created so far
  pc,           \* [Threads -> [l, k]]
  stack,        \* return positions of the control thread
  res,          \* "True" | "False" returned by the last send/connect, or "none"
  cmd,          \* command argument of the pending send_command
  dfor,         \* connection the control thread's disconnect() tears down
  arg,          \* arguments of the control thread's current LED operation
  connType,     \* connection_type_var
  out,          \* [Handles -> Seq(line)]    lines written to the handle since
                \*                           the last control operation ended
  nsend,        \* send calls made so far
  lastSt,       \* [Kinds -> "none"|"up"|"down"] last on_status_change per kind
  uiLast,       \* last on_status_change call <<status, kind>>
  nfalse,       \* [Handles -> Nat] on_status_change(False) calls per connection
  warnings,     \* CTkMessageDialog.showwarning calls
  taken,        \* [Handles -> 0..MaxLines]  inbound lines read off the handle
  rdata,        \* [Threads -> <<>> | <<h, n>>]  reader-local data / line
  readBuffer,   \* WifiManager.read_buffer (complete lines pending)
  lastDel,      \* [Handles -> 0..MaxLines]  last line passed to on_message
  fifoBad,      \* an on_message call was out of stream order
  watch,        \* which observations are recorded: "status", "io"
  stream,       \* the bytes the peer sends on the connection
  spos,         \* how many of them the reader has taken
  delivered,    \* the lines passed to on_message, as text
  performed,    \* the actions passed to ActionManager.perform
  act,          \* the calls to make and their inputs
  effects,      \* what each call did: primitives run, warnings and errors logged
  propagated,   \* an exception left the call and reached its caller
  ncall,        \* how many of the calls have been made
  ret           \* the value the call returned

mgr == <<running, isConnected, chan>>
hnd == <<hstate, hkind, broken, nconn>>
thr == <<pc, stack>>
loc == <<res, cmd, dfor, arg>>
ui  == <<connType, lastSt, uiLast, nfalse, warnings>>
io  == <<out, nsend>>
dat == <<taken, rdata, readBuffer, lastDel, fifoBad>>
eng == <<act, effects, propagated, ncall, ret>>
app == <<stream, spos, delivered, performed, eng>>
vars == <<mgr, hnd, thr, loc, ui, io, dat, watch, app>>

\* ------------------------------------------------------------ text values
NL == "\n"
CONNECTED == <<"C","O","N","N","E","C","T","E","D">>
DISCONNECT == <<"D","I","S","C","O","N","N","E","C","T">>
Digits == <<"0","1","2","3","4","5","6","7","8","9">>

IsDigit(ch) == \E i \in 1..10 : Digits[i] = ch
DigitVal(ch) == (CHOOSE i \in 1..10 : Digits[i] = ch) - 1

\* int(button_key): a decimal numeral; anything else raises ValueError
IntParses(s) == Len(s) > 0 /\ \A i \in 1..Len(s) : IsDigit(s[i])

RECURSIVE IntOf(_)
IntOf(s) == IF Len(s) = 0 THEN 0
            ELSE 10 * IntOf(SubSeq(s, 1, Len(s) - 1)) + DigitVal(s[Len(s)])

\* str(n) inside the f-string
RECURSIVE NatStr(_)
NatStr(n) == IF n < 10 THEN <<Digits[n + 1]>>
             ELSE NatStr(n \div 10) \o <<Digits[(n % 10) + 1]>>

IntStr(n) == IF n < 0 THEN <<"-">> \o NatStr(0 - n) ELSE NatStr(n)

\* color_hex.lstrip('#')
RECURSIVE LStrip(_, _)
LStrip(s, ch) == IF Len(s) > 0 /\ Head(s) = ch THEN LStrip(Tail(s), ch) ELSE s

\* the index is not made zero-based
LedCommandOneBased(key, color) ==
  <<"L","E","D",":">> \o IntStr(IntOf(key)) \o <<":">> \o LStrip(color, "#")

\* f"LED:{led_index}:{hex_payload}"
LedCommand(key, color) ==
  <<"L","E","D",":">> \o IntStr(IntOf(key) - 1) \o <<":">> \o LStrip(color, "#")

\* f"ALL_LED:{command}"
AllLedCommand(c) == <<"A","L","L","_","L","E","D",":">> \o c

\* inputs of the LED operations
LedInputs == { <<<<"5">>, <<"#","F","F","0","0","A","A">>>>,
               <<<<"1","0">>, <<"0","0","F","F","0","0">>>>,
               <<<<"x">>, <<"#","F","F","0","0","A","A">>>> }
AllLedWords == {<<"O","N">>}

\* ------------------------------------------------------------ helpers
At(t, l) == pc[t].l = l
AtK(t, l, k) == pc[t].l = l /\ pc[t].k = k
Pos(l, k) == [l |-> l, k |-> k]
Idle == Pos("idle", S)
Ret == Pos("ret", S)

Goto(t, l, k) == pc' = [pc EXCEPT ![t] = Pos(l, k)] /\ UNCHANGED stack

\* a call made by thread t; only the control thread has callers to return to
Call(t, l, k, rl, rk) ==
  /\ pc' = [pc EXCEPT ![t] = Pos(l, k)]
  /\ stack' = IF t = 0 THEN <<Pos(rl, rk)>> \o stack ELSE stack

Return(t) ==
  IF t = 0
  THEN pc' = [pc EXCEPT ![0] = Head(stack)] /\ stack' = Tail(stack)
  ELSE pc' = [pc EXCEPT ![t] = Pos("done", pc[t].k)] /\ UNCHANGED stack

Max(s) == CHOOSE x \in s : \A y \in s : y <= x

\* the latest connection established on manager k (0: none)
Cur(k) == LET s == {h \in Handles : hkind[h] = k /\ pc[h].l # "none"}
          IN IF s = {} THEN 0 ELSE Max(s)

\* the connection a disconnect() run by thread t is attributed to
Attr(t) == IF t = 0 THEN dfor ELSE t

CanWrite(c) == c # 0 /\ hstate[c] = "open" /\ ~broken[c]

\* self.on_status_change(b, kind) for connection c (0: no connection)
Notify(b, k, c) ==
  /\ IF "status" \in watch
     THEN /\ lastSt' = [lastSt EXCEPT ![k] = b]
          /\ uiLast' = <<b, k>>
          /\ nfalse' = IF b = "down" /\ c # 0
                       THEN [nfalse EXCEPT ![c] = IF @ < 2 THEN @ + 1 ELSE @]
                       ELSE nfalse
     ELSE UNCHANGED <<lastSt, uiLast, nfalse>>
  /\ UNCHANGED <<connType, warnings>>

\* the bytes of line written to handle c
Written(c, line) == IF "io" \in watch THEN [out EXCEPT ![c] = Append(@, line)] ELSE out

\* ------------------------------------------------------------ initial state
InitBase(w) ==
  /\ watch = w
  /\ running = [k \in Kinds |-> FALSE]
  /\ isConnected = [k \in Kinds |-> FALSE]
  /\ chan = [k \in Kinds |-> 0]
  /\ hstate = [h \in Handles |-> "unused"]
  /\ hkind = [h \in Handles |-> S]
  /\ broken = [h \in Handles |-> FALSE]
  /\ nconn = 0
  /\ pc = [t \in Threads |-> IF t = 0 THEN Idle ELSE Pos("none", S)]
  /\ stack = <<>>
  /\ res = "none"
  /\ cmd = <<>>
  /\ dfor = 0
  /\ arg = <<>>
  /\ connType \in Kinds
  /\ out = [h \in Handles |-> <<>>]
  /\ nsend = 0
  /\ lastSt = [k \in Kinds |-> "none"]
  /\ uiLast = <<"none", S>>
  /\ nfalse = [h \in Handles |-> 0]
  /\ warnings = 0
  /\ taken = [h \in Handles |-> 0]
  /\ rdata = [t \in Threads |-> <<>>]
  /\ readBuffer = <<>>
  /\ lastDel = [h \in Handles |-> 0]
  /\ fifoBad = FALSE
  /\ spos = 0
  /\ delivered = <<>>
  /\ performed = <<>>
  /\ effects = <<>>
  /\ propagated = FALSE
  /\ ncall = 0
  /\ ret = "none"

InitWatching(w) == InitBase(w) /\ act = [op |-> "none"]

\* ------------------------------------------------------------ SerialManager
\* disconnect(): self._running = False; self._is_connected = False
SerialDisconnect1 ==
  /\ AtK(0, "sd1", S)
  /\ running' = [running EXCEPT ![S] = FALSE]
  /\ isConnected' = [isConnected EXCEPT ![S] = FALSE]
  /\ dfor' = IF isConnected[S] /\ "status" \in watch THEN Cur(S) ELSE 0
  /\ Goto(0, "sd2", S)
  /\ UNCHANGED <<chan, hnd, res, cmd, arg, ui, io, dat, watch, app>>

\* disconnect(): if the port is open, write DISCONNECT (best effort), close
SerialDisconnect2 ==
  /\ AtK(0, "sd2", S)
  /\ LET c == chan[S] IN
       IF c # 0 /\ hstate[c] = "open"
       THEN /\ out' = IF broken[c] THEN out
                      ELSE Written(c, DISCONNECT \o <<NL>>)
            /\ hstate' = [hstate EXCEPT ![c] = "closed"]
       ELSE UNCHANGED <<out, hstate>>
  /\ Goto(0, "sd3", S)
  /\ UNCHANGED <<mgr, hkind, broken, nconn, loc, ui, nsend, dat, watch, app>>

\* disconnect(): self.on_status_change(False, "Serial")
SerialDisconnect3 ==
  /\ AtK(0, "sd3", S)
  /\ Notify("down", S, dfor)
  /\ Return(0)
  /\ UNCHANGED <<mgr, hnd, loc, io, dat, watch, app>>

\* send_command without the test of self._is_connected
SerialSendCommandUnchecked ==
  /\ AtK(0, "ss", S)
  /\ LET c == chan[S] IN
       IF c # 0 /\ hstate[c] = "open"
       THEN IF broken[c]
            THEN res' = "False" /\ out' = out
            ELSE res' = "True" /\ out' = Written(c, cmd \o <<NL>>)
       ELSE res' = "False" /\ out' = out
  /\ Return(0)
  /\ UNCHANGED <<mgr, hnd, cmd, dfor, arg, ui, nsend, dat, watch, app>>

\* send_command(command)
SerialSendCommand ==
  /\ AtK(0, "ss", S)
  /\ LET c == chan[S] IN
       IF isConnected[S] /\ c # 0 /\ hstate[c] = "open"
       THEN IF broken[c]
            THEN res' = "False" /\ out' = out
            ELSE res' = "True" /\ out' = Written(c, cmd \o <<NL>>)
       ELSE res' = "False" /\ out' = out
  /\ Return(0)
  /\ UNCHANGED <<mgr, hnd, cmd, dfor, arg, ui, nsend, dat, watch, app>>

\* connect(): if not self.is_port_available(port): return False
SerialConnect1 ==
  /\ AtK(0, "sc1", S)
  /\ \E avail \in BOOLEAN :
       IF avail
       THEN Goto(0, "sc2", S) /\ res' = res
       ELSE Return(0) /\ res' = "False"
  /\ UNCHANGED <<mgr, hnd, cmd, dfor, arg, ui, io, dat, watch, app>>

\* connect(): if self._serial and self._serial.is_open: self.disconnect()
SerialConnect2 ==
  /\ AtK(0, "sc2", S)
  /\ IF chan[S] # 0 /\ hstate[chan[S]] = "open"
     THEN Call(0, "sd1", S, "sc3", S)
     ELSE Goto(0, "sc3", S)
  /\ UNCHANGED <<mgr, hnd, loc, ui, io, dat, watch, app>>

\* connect(): self._serial = serial.Serial(...); an exception returns False
SerialConnect3 ==
  /\ AtK(0, "sc3", S)
  /\ \E opened \in BOOLEAN :
       IF opened
       THEN /\ nconn' = nconn + 1
            /\ chan' = [chan EXCEPT ![S] = nconn + 1]
            /\ hstate' = [hstate EXCEPT ![nconn + 1] = "open"]
            /\ hkind' = [hkind EXCEPT ![nconn + 1] = S]
            /\ Goto(0, "sc4", S)
            /\ res' = res
       ELSE /\ UNCHANGED <<nconn, chan, hstate, hkind>>
            /\ Return(0)
            /\ res' = "False"
  /\ UNCHANGED <<running, isConnected, broken, cmd, dfor, arg, ui, io, dat, watch, app>>

\* connect(): time.sleep(2); flags; reader thread start; send_command("CONNECTED")
SerialConnect4 ==
  /\ AtK(0, "sc4", S)
  /\ running' = [running EXCEPT ![S] = TRUE]
  /\ isConnected' = [isConnected EXCEPT ![S] = TRUE]
  /\ cmd' = CONNECTED
  /\ pc' = [pc EXCEPT ![0] = Pos("ss", S), ![nconn] = Pos("sr1", S)]
  /\ stack' = <<Pos("sc6", S)>> \o stack
  /\ UNCHANGED <<chan, hnd, res, dfor, arg, ui, io, dat, watch, app>>

\* connect(): self.on_status_change(True, "Serial"); return True
SerialConnect6 ==
  /\ AtK(0, "sc6", S)
  /\ Notify("up", S, nconn)
  /\ res' = "True"
  /\ Return(0)
  /\ UNCHANGED <<mgr, hnd, cmd, dfor, arg, io, dat, watch, app>>

\* on_message(line) for the item a reader holds
Deliver(item) ==
  /\ lastDel' = [lastDel EXCEPT ![item[1]] = item[2]]
  /\ fifoBad' = (fifoBad \/ item[2] # lastDel[item[1]] + 1)

\* _reader_loop(): the port the loop condition and in_waiting see is usable
SerialLive == running[S] /\ chan[S] # 0 /\ hstate[chan[S]] = "open" /\ ~broken[chan[S]]

\* _reader_loop(): the loop condition fails, or in_waiting / readline raises
SerialReaderExit(t) ==
  /\ AtK(t, "sr1", S)
  /\ ~SerialLive
  /\ Goto(t, "sf1", S)
  /\ UNCHANGED <<mgr, hnd, loc, ui, io, dat, watch, app>>

\* _reader_loop(): in_waiting > 0, line = self._serial.readline()...
SerialReaderRead(t) ==
  /\ AtK(t, "sr1", S)
  /\ SerialLive /\ taken[chan[S]] < MaxLines
  /\ taken' = [taken EXCEPT ![chan[S]] = @ + 1]
  /\ rdata' = [rdata EXCEPT ![t] = <<chan[S], taken[chan[S]] + 1>>]
  /\ Goto(t, "sr2", S)
  /\ UNCHANGED <<mgr, hnd, loc, ui, io, readBuffer, lastDel, fifoBad, watch, app>>

\* _reader_loop(): if line: self.on_message(line)
SerialReaderDeliver(t) ==
  /\ AtK(t, "sr2", S)
  /\ Deliver(rdata[t])
  /\ rdata' = [rdata EXCEPT ![t] = <<>>]
  /\ Goto(t, "sr1", S)
  /\ UNCHANGED <<mgr, hnd, loc, ui, io, taken, readBuffer, watch, app>>

\* _reader_loop() finally: self._running = False; self._is_connected = False
SerialReaderFinally1(t) ==
  /\ AtK(t, "sf1", S)
  /\ running' = [running EXCEPT ![S] = FALSE]
  /\ isConnected' = [isConnected EXCEPT ![S] = FALSE]
  /\ Goto(t, "sf2", S)
  /\ UNCHANGED <<chan, hnd, loc, ui, io, dat, watch, app>>

\* _reader_loop() finally: self.on_status_change(False, "Serial")
SerialReaderFinally2(t) ==
  /\ AtK(t, "sf2", S)
  /\ Notify("down", S, t)
  /\ Goto(t, "done", S)
  /\ UNCHANGED <<mgr, hnd, loc, io, dat, watch, app>>

\* ------------------------------------------------------------ WifiManager
\* disconnect(): self._running = False; self._is_connected = False
WifiDisconnect1(t) ==
  /\ AtK(t, "wd1", W)
  /\ running' = [running EXCEPT ![W] = FALSE]
  /\ isConnected' = [isConnected EXCEPT ![W] = FALSE]
  /\ dfor' = IF t # 0 THEN dfor
           ELSE IF isConnected[W] /\ "status" \in watch THEN Cur(W) ELSE 0
  /\ Goto(t, "wd2", W)
  /\ UNCHANGED <<chan, hnd, res, cmd, arg, ui, io, dat, watch, app>>

\* disconnect(): if self._socket:
WifiDisconnect2(t) ==
  /\ AtK(t, "wd2", W)
  /\ Goto(t, IF chan[W] # 0 THEN "wd3" ELSE "wd6", W)
  /\ UNCHANGED <<mgr, hnd, loc, ui, io, dat, watch, app>>

\* disconnect(): try: self._socket.sendall(b"DISCONNECT\n") except: pass
WifiDisconnect3(t) ==
  /\ AtK(t, "wd3", W)
  /\ out' = IF CanWrite(chan[W])
            THEN Written(chan[W], DISCONNECT \o <<NL>>)
            ELSE out
  /\ Goto(t, "wd4", W)
  /\ UNCHANGED <<mgr, hnd, loc, ui, nsend, dat, watch, app>>

\* disconnect(): try: self._socket.shutdown(...); self._socket.close() except: pass
WifiDisconnect4(t) ==
  /\ AtK(t, "wd4", W)
  /\ hstate' = IF chan[W] # 0 THEN [hstate EXCEPT ![chan[W]] = "closed"] ELSE hstate
  /\ Goto(t, "wd5", W)
  /\ UNCHANGED <<mgr, hkind, broken, nconn, loc, ui, io, dat, watch, app>>

\* disconnect(): self._socket = None
WifiDisconnect5(t) ==
  /\ AtK(t, "wd5", W)
  /\ chan' = [chan EXCEPT ![W] = 0]
  /\ Goto(t, "wd6", W)
  /\ UNCHANGED <<running, isConnected, hnd, loc, ui, io, dat, watch, app>>

\* disconnect(): self.on_status_change(False, "Wi-Fi")
WifiDisconnect6(t) ==
  /\ AtK(t, "wd6", W)
  /\ Notify("down", W, Attr(t))
  /\ Return(t)
  /\ UNCHANGED <<mgr, hnd, loc, io, dat, watch, app>>

\* send_command(command): a failing sendall calls self.disconnect() and
\* returns False
WifiSendCommand ==
  /\ AtK(0, "ws", W)
  /\ IF isConnected[W] /\ chan[W] # 0
     THEN IF CanWrite(chan[W])
          THEN /\ out' = Written(chan[W], cmd \o <<NL>>)
               /\ res' = "True"
               /\ Return(0)
          ELSE /\ Goto(0, "wd1", W)
               /\ res' = "False"
               /\ out' = out
     ELSE /\ res' = "False"
          /\ Return(0)
          /\ out' = out
  /\ UNCHANGED <<mgr, hnd, cmd, dfor, arg, ui, nsend, dat, watch, app>>

\* connect(): self._socket = socket.socket(...)    (not yet connected)
WifiConnect1 ==
  /\ AtK(0, "wc1", W)
  /\ nconn' = nconn + 1
  /\ chan' = [chan EXCEPT ![W] = nconn + 1]
  /\ hstate' = [hstate EXCEPT ![nconn + 1] = "open"]
  /\ hkind' = [hkind EXCEPT ![nconn + 1] = W]
  /\ broken' = [broken EXCEPT ![nconn + 1] = TRUE]
  /\ Goto(0, "wc2", W)
  /\ UNCHANGED <<running, isConnected, loc, ui, io, dat, watch, app>>

\* connect(): self._socket.connect(...); settimeout(None); flags; reader
\* thread start; send_command("CONNECTED").  Any exception goes to the handler.
WifiConnect2 ==
  /\ AtK(0, "wc2", W)
  /\ \/ /\ chan[W] = nconn /\ hstate[nconn] = "open"
        /\ broken' = [broken EXCEPT ![nconn] = FALSE]
        /\ running' = [running EXCEPT ![W] = TRUE]
        /\ isConnected' = [isConnected EXCEPT ![W] = TRUE]
        /\ cmd' = CONNECTED
        /\ pc' = [pc EXCEPT ![0] = Pos("ws", W), ![nconn] = Pos("wr1", W)]
        /\ stack' = <<Pos("wc5", W)>> \o stack
     \/ /\ Goto(0, "wcE", W)
        /\ UNCHANGED <<broken, running, isConnected, cmd>>
  /\ UNCHANGED <<chan, hstate, hkind, nconn, res, dfor, arg, ui, io, dat, watch, app>>

\* connect(): self.on_status_change(True, "Wi-Fi"); return True
WifiConnect5 ==
  /\ AtK(0, "wc5", W)
  /\ Notify("up", W, nconn)
  /\ res' = "True"
  /\ Return(0)
  /\ UNCHANGED <<mgr, hnd, cmd, dfor, arg, io, dat, watch, app>>

\* connect() except: self._is_connected = False; on_status_change(False); return False
WifiConnectFailed ==
  /\ AtK(0, "wcE", W)
  /\ isConnected' = [isConnected EXCEPT ![W] = FALSE]
  /\ Notify("down", W, 0)
  /\ res' = "False"
  /\ Return(0)
  /\ UNCHANGED <<running, chan, hnd, cmd, dfor, arg, io, dat, watch, app>>

\* _reader_loop(): the socket the loop condition, select and recv see is usable
WifiLive == running[W] /\ chan[W] # 0 /\ hstate[chan[W]] = "open" /\ ~broken[chan[W]]

\* _reader_loop(): the loop condition fails, select / recv raises, or recv
\* returns no data; the finally clause calls self.disconnect()
WifiReaderExit(t) ==
  /\ AtK(t, "wr1", W)
  /\ ~WifiLive
  /\ Goto(t, "wd1", W)
  /\ UNCHANGED <<mgr, hnd, loc, ui, io, dat, watch, app>>

\* _reader_loop(): select says ready, data = self._socket.recv(1024)
WifiReaderRead(t) ==
  /\ AtK(t, "wr1", W)
  /\ WifiLive /\ taken[chan[W]] < MaxLines
  /\ taken' = [taken EXCEPT ![chan[W]] = @ + 1]
  /\ rdata' = [rdata EXCEPT ![t] = <<chan[W], taken[chan[W]] + 1>>]
  /\ Goto(t, "wr2", W)
  /\ UNCHANGED <<mgr, hnd, loc, ui, io, readBuffer, lastDel, fifoBad, watch, app>>

\* _reader_loop(): self.read_buffer += data.decode(...)
WifiReaderAppend(t) ==
  /\ AtK(t, "wr2", W)
  /\ readBuffer' = Append(readBuffer, rdata[t])
  /\ rdata' = [rdata EXCEPT ![t] = <<>>]
  /\ Goto(t, "wr3", W)
  /\ UNCHANGED <<mgr, hnd, loc, ui, io, taken, lastDel, fifoBad, watch, app>>

\* _reader_loop(): while '\n' in self.read_buffer: split, on_message(line)
WifiReaderLines(t) ==
  /\ AtK(t, "wr3", W)
  /\ IF readBuffer # <<>>
     THEN /\ Deliver(Head(readBuffer))
          /\ readBuffer' = Tail(readBuffer)
          /\ UNCHANGED thr
     ELSE /\ Goto(t, "wr1", W)
          /\ UNCHANGED <<readBuffer, lastDel, fifoBad>>
  /\ UNCHANGED <<mgr, hnd, loc, ui, io, taken, rdata, watch, app>>

\* ------------------------------------------------------------ environment
\* the peer closes or the link fails: I/O on the handle fails from now on
ChannelFails(h) ==
  /\ hstate[h] = "open" /\ ~broken[h] /\ pc[h].l # "none"
  /\ broken' = [broken EXCEPT ![h] = TRUE]
  /\ UNCHANGED <<mgr, hstate, hkind, nconn, thr, loc, ui, io, dat, watch, app>>

\* ------------------------------------------------------------ Esp32DeckApp
\* the selected manager taken for the one that is not selected
OtherWrong(k) == k

\* the manager that is not selected
Other(k) == IF k = S THEN W ELSE S
DisconnectEntry(k) == IF k = S THEN "sd1" ELSE "wd1"
SendEntry(k) == IF k = S THEN "ss" ELSE "ws"

\* _connect_any(): disconnect the manager that is not selected
ConnectAny ==
  /\ At(0, "idle") /\ nconn < MaxConn
  /\ IF isConnected[Other(connType)]
     THEN Call(0, DisconnectEntry(Other(connType)), Other(connType), "ca2", connType)
     ELSE Goto(0, "ca2", connType)
  /\ UNCHANGED <<mgr, hnd, loc, ui, io, dat, watch, app>>

\* _connect_any() -> _connect_serial() / _connect_wifi(): validate the
\* entries, then call connect(); WifiManager.connect() starts with
\* self.disconnect().  What follows connect() (saving the target) changes
\* nothing of the transports.
ConnectSelected ==
  /\ At(0, "ca2")
  /\ \E valid \in BOOLEAN :
       IF valid
       THEN /\ arg' = <<"connect", pc[0].k, isConnected[pc[0].k]>>
            /\ IF pc[0].k = S
               THEN Call(0, "sc1", S, "ret", S)
               ELSE /\ pc' = [pc EXCEPT ![0] = Pos("wd1", W)]
                    /\ stack' = <<Pos("wc1", W), Ret>> \o stack
       ELSE pc' = [pc EXCEPT ![0] = Idle] /\ UNCHANGED <<stack, arg>>
  /\ UNCHANGED <<mgr, hnd, res, cmd, dfor, ui, io, dat, watch, app>>

\* _disconnect_any(): self.serial_manager.disconnect(), then
\* self.wifi_manager.disconnect()
DisconnectAny ==
  /\ At(0, "idle")
  /\ pc' = [pc EXCEPT ![0] = Pos("sd1", S)]
  /\ stack' = <<Pos("wd1", W), Ret>>
  /\ UNCHANGED <<mgr, hnd, loc, ui, io, dat, watch, app>>

\* _on_connection_type_change(value)
ConnectionTypeChange(v) ==
  /\ At(0, "idle")
  /\ connType' = v
  /\ IF isConnected[Other(v)]
     THEN /\ pc' = [pc EXCEPT ![0] = Pos("sd1", S)]
          /\ stack' = <<Pos("wd1", W), Ret>>
     ELSE UNCHANGED thr
  /\ UNCHANGED <<mgr, hnd, loc, lastSt, uiLast, nfalse, warnings, io, dat, watch, app>>

\* _send_led_color_command(button_key, color_hex)
SendLedColor(key, color) ==
  /\ At(0, "idle") /\ nsend < MaxSend
  /\ nsend' = nsend + 1
  /\ arg' = <<"led", key, color>>
  /\ IF ~isConnected[S] /\ ~isConnected[W]
     THEN /\ warnings' = warnings + 1
          /\ UNCHANGED <<thr, cmd>>
     ELSE /\ warnings' = warnings
          /\ IF IntParses(key)
             THEN /\ cmd' = LedCommand(key, color)
                  /\ LET k == IF isConnected[S] THEN S ELSE W
                     IN Call(0, SendEntry(k), k, "ret", S)
             ELSE UNCHANGED <<thr, cmd>>
  /\ UNCHANGED <<mgr, hnd, res, dfor, connType, lastSt, uiLast, nfalse, out, dat, watch, app>>

\* _send_all_led_command without the warning dialog
SendAllLedSilent(word) ==
  /\ At(0, "idle") /\ nsend < MaxSend
  /\ nsend' = nsend + 1
  /\ arg' = <<"all", word>>
  /\ warnings' = warnings
  /\ IF ~isConnected[S] /\ ~isConnected[W]
     THEN UNCHANGED <<thr, cmd>>
     ELSE /\ cmd' = AllLedCommand(word)
          /\ LET k == IF isConnected[S] THEN S ELSE W
             IN Call(0, SendEntry(k), k, "ret", S)
  /\ UNCHANGED <<mgr, hnd, res, dfor, connType, lastSt, uiLast, nfalse, out, dat, watch, app>>

\* _send_all_led_command(command)
SendAllLed(word) ==
  /\ At(0, "idle") /\ nsend < MaxSend
  /\ nsend' = nsend + 1
  /\ arg' = <<"all", word>>
  /\ IF ~isConnected[S] /\ ~isConnected[W]
     THEN /\ warnings' = warnings + 1
          /\ UNCHANGED <<thr, cmd>>
     ELSE /\ warnings' = warnings
          /\ cmd' = AllLedCommand(word)
          /\ LET k == IF isConnected[S] THEN S ELSE W
             IN Call(0, SendEntry(k), k, "ret", S)
  /\ UNCHANGED <<mgr, hnd, res, dfor, connType, lastSt, uiLast, nfalse, out, dat, watch, app>>

\* a direct call of the transport's send_command(command)
SendDirect(k) ==
  /\ At(0, "idle") /\ nsend < MaxSend
  /\ nsend' = nsend + 1
  /\ arg' = <<"send", k>>
  /\ cmd' = AllLedCommand(<<"O","N">>)
  /\ Call(0, SendEntry(k), k, "ret", S)
  /\ UNCHANGED <<mgr, hnd, res, dfor, ui, out, dat, watch, app>>

\* the operation is over: its locals die with its frame, and the record of
\* the lines written starts afresh
OperationDone ==
  /\ At(0, "ret")
  /\ pc' = [pc EXCEPT ![0] = Idle]
  /\ res' = "none" /\ cmd' = <<>> /\ dfor' = 0 /\ arg' = <<>>
  /\ out' = [h \in Handles |-> <<>>]
  /\ UNCHANGED <<stack, mgr, hnd, ui, nsend, dat, watch, app>>

\* ------------------------------------------------------------ inbound text
\* bytes on the wire: 'a', ' ', '\n', and the two bytes of U+00E9
ByteA == "61"
ByteSP == "20"
ByteNL == "0A"
ByteLead == "C3"
ByteCont == "A9"
Bytes == {ByteA, ByteSP, ByteNL, ByteLead, ByteCont}
EAcute == "U+00E9"

AsciiChar(b) == IF b = ByteA THEN "a" ELSE IF b = ByteSP THEN " " ELSE NL

\* bytes.decode('utf-8', errors='ignore'): a lead byte without its
\* continuation byte, and a continuation byte without its lead, are dropped
RECURSIVE Decode(_)
Decode(bs) ==
  IF bs = <<>> THEN <<>>
  ELSE IF Head(bs) = ByteLead
       THEN IF Len(bs) >= 2 /\ bs[2] = ByteCont
            THEN <<EAcute>> \o Decode(SubSeq(bs, 3, Len(bs)))
            ELSE Decode(Tail(bs))
       ELSE IF Head(bs) = ByteCont
            THEN Decode(Tail(bs))
            ELSE <<AsciiChar(Head(bs))>> \o Decode(Tail(bs))

IsSpace(ch) == ch = " " \/ ch = NL

RECURSIVE LStripWs(_)
LStripWs(s) == IF Len(s) > 0 /\ IsSpace(Head(s)) THEN LStripWs(Tail(s)) ELSE s

RECURSIVE RStripWs(_)
RStripWs(s) == IF Len(s) > 0 /\ IsSpace(s[Len(s)])
               THEN RStripWs(SubSeq(s, 1, Len(s) - 1)) ELSE s

\* str.strip()
Strip(s) == RStripWs(LStripWs(s))

Has(s, ch) == \E i \in 1..Len(s) : s[i] = ch
First(s, ch) == CHOOSE i \in 1..Len(s) : s[i] = ch /\ \A j \in 1..(i - 1) : s[j] # ch

\* str.split(sep)
RECURSIVE SplitOn(_, _)
SplitOn(s, ch) ==
  IF ~Has(s, ch) THEN <<s>>
  ELSE <<SubSeq(s, 1, First(s, ch) - 1)>>
       \o SplitOn(SubSeq(s, First(s, ch) + 1, Len(s)), ch)

\* while '\n' in self.read_buffer: line, self.read_buffer = split('\n', 1):
\* the lines taken out of the buffer, and what stays in it
RECURSIVE BufferLines(_)
BufferLines(buf) ==
  IF ~Has(buf, NL) THEN <<>>
  ELSE <<SubSeq(buf, 1, First(buf, NL) - 1)>>
       \o BufferLines(SubSeq(buf, First(buf, NL) + 1, Len(buf)))

RECURSIVE BufferRest(_)
BufferRest(buf) ==
  IF ~Has(buf, NL) THEN buf
  ELSE BufferRest(SubSeq(buf, First(buf, NL) + 1, Len(buf)))

\* every line handed on as it was read
MessagesUnstripped(raw) == raw

\* line = line.strip(); if line: self.on_message(line)
RECURSIVE Messages(_)
Messages(raw) ==
  IF raw = <<>> THEN <<>>
  ELSE (IF Strip(Head(raw)) = <<>> THEN <<>> ELSE <<Strip(Head(raw))>>)
       \o Messages(Tail(raw))

\* ------------------------------------------------------------ BTN dispatch
BTN == <<"B","T","N",":">>
StartsWith(s, p) == Len(s) >= Len(p) /\ SubSeq(s, 1, Len(p)) = p

\* ConfigManager._default(): the keys of config.data['buttons']
ButtonKeys == {NatStr(i) : i \in 1..BUTTON_COUNT}

\* a configuration: buttons 1 and 12 have an action, the others have none
ButtonAction(key) ==
  IF key = <<"1">> THEN [type |-> "hotkey", payload |-> "ctrl+c"]
  ELSE IF key = <<"1","2">> THEN [type |-> "open_url", payload |-> "http://x"]
  ELSE [type |-> "none", payload |-> ""]

\* the first piece of the split taken for the key
ButtonKeyFirst(text) == SplitOn(text, ":")[1]

\* key = text.split(':')[1]
ButtonKey(text) == SplitOn(text, ":")[2]

\* _process_button_message(text): the perform calls it makes
ProcessButtonMessage(text) ==
  IF StartsWith(text, BTN) /\ ButtonKey(text) \in ButtonKeys
  THEN <<ButtonAction(ButtonKey(text))>>
  ELSE <<>>

RECURSIVE ProcessAll(_)
ProcessAll(lines) ==
  IF lines = <<>> THEN <<>>
  ELSE ProcessButtonMessage(Head(lines)) \o ProcessAll(Tail(lines))

\* on_message(line) for each of lines, in order
Emit(lines) ==
  /\ delivered' = delivered \o lines
  /\ performed' = performed \o ProcessAll(lines)

\* the inbound lines of the dispatch specification
BtnLine(key) == BTN \o key
InboundLines == { BtnLine(<<"1">>), BtnLine(<<"1","2">>), BtnLine(<<"2">>),
                  BtnLine(<<"1","7">>), BtnLine(<<"1",":","2">>), BTN,
                  <<"B","T","N">>, <<"L","E","D",":","1">> }

\* _on_serial_message(text) / _on_wifi_message(text)
OnMessage(text) ==
  /\ Len(delivered) < MaxMsgs
  /\ Emit(<<text>>)
  /\ UNCHANGED <<mgr, hnd, thr, loc, ui, io, dat, watch, stream, spos, eng>>

\* ------------------------------------------------------------ line framing
Streams == UNION {[1..n -> Bytes] : n \in 0..MaxBytes}

\* WifiManager._reader_loop(): one recv(1024) of n bytes and what follows it
WifiRecv(n) ==
  /\ connType = W
  /\ LET buf == readBuffer \o Decode(SubSeq(stream, spos + 1, spos + n))
     IN /\ readBuffer' = BufferRest(buf)
        /\ Emit(Messages(BufferLines(buf)))
  /\ spos' = spos + n
  /\ UNCHANGED <<mgr, hnd, thr, loc, ui, io, taken, rdata, lastDel, fifoBad,
                 watch, stream, eng>>

\* readline() returns at the first '\n', or at its 1 s timeout with what came
ReadlineReturns(n) ==
  \A i \in 1..(n - 1) : stream[spos + i] # ByteNL

\* SerialManager._reader_loop(): one readline() of n bytes and what follows it
SerialReadline(n) ==
  /\ connType = S
  /\ ReadlineReturns(n)
  /\ Emit(Messages(<<Decode(SubSeq(stream, spos + 1, spos + n))>>))
  /\ spos' = spos + n
  /\ UNCHANGED <<mgr, hnd, thr, loc, ui, io, dat, watch, stream, eng>>

\* disconnect() and connect() on the manager in use: the peer of the new
\* connection sends the bytes s; connect() and disconnect() leave
\* WifiManager.read_buffer as it is (it is assigned in __init__ and in the
\* reader loop only); the record of the lines delivered starts afresh
ConnectAgain(s) ==
  /\ nconn < MaxConn - 1
  /\ nconn' = nconn + 1
  /\ stream' = s
  /\ spos' = 0
  /\ delivered' = <<>>
  /\ UNCHANGED <<mgr, hstate, hkind, broken, thr, loc, ui, io, dat, watch,
                 performed, eng>>

\* ------------------------------------------------------------ ActionManager
\* payloads: a string, a list, or a value of another shape (a number)
Str(v) == [k |-> "str", v |-> v]
List(v) == [k |-> "list", v |-> v]
Num == [k |-> "int", v |-> 0]

\* Action(type, payload)
Action(type, payload) == [type |-> type, payload |-> payload]

\* the elements of a macro list: a mapping with or without 'type', or not a
\* mapping at all
Step(type, payload) ==
  [k |-> "dict", hasType |-> TRUE, type |-> type, payload |-> payload]
NoTypeStep ==
  [k |-> "dict", hasType |-> FALSE, type |-> "", payload |-> Str("p")]
NotDictStep ==
  [k |-> "other", hasType |-> FALSE, type |-> "", payload |-> Str("")]

Range(seq) == {seq[i] : i \in 1..Len(seq)}

\* what a call leaves behind: a primitive that ran, a warning or error logged
Do(type, payload) == <<"do", type, payload>>
Log(level, what, i) == <<"log", level, what, i>>

\* the outcome of a piece of code: its trace, and whether it raised
Done(tr) == [tr |-> tr, exc |-> FALSE]
Raised(tr) == [tr |-> tr, exc |-> TRUE]

\* an OS primitive (webbrowser.open, subprocess.Popen, pyautogui.write, ...):
\* it runs, or it raises
Prim(type, payload, env) ==
  IF type \in env.fail THEN Raised(<<>>) ELSE Done(<<Do(type, payload)>>)

\* os.path.exists(payload)
PathExists(payload) == payload.k = "str" /\ payload.v # "gone"

RECURSIVE Perform(_, _)
RECURSIVE MacroSteps(_, _, _)
RECURSIVE MacroStepsAbort(_, _, _)
RECURSIVE MacroStepsStop(_, _, _)

\* the macro loop left after the first step that logged an error
MacroStepsStop(steps, i, env) ==
  IF i > Len(steps) THEN Done(<<>>)
  ELSE LET a == steps[i]
           one == IF a.k = "dict" /\ a.hasType
                  THEN Perform(Action(a.type, a.payload), env)
                  ELSE Done(<<Log("error", "step", i)>>)
           failed == \E j \in 1..Len(one.tr) : one.tr[j][2] = "error"
       IN IF one.exc \/ failed THEN one
          ELSE LET rest == MacroStepsStop(steps, i + 1, env)
               IN [tr |-> one.tr \o rest.tr, exc |-> rest.exc]

\* the macro loop left at the first malformed step
MacroStepsAbort(steps, i, env) ==
  IF i > Len(steps) THEN Done(<<>>)
  ELSE LET a == steps[i]
       IN IF a.k = "dict" /\ a.hasType
          THEN LET one == Perform(Action(a.type, a.payload), env)
                   rest == MacroStepsAbort(steps, i + 1, env)
               IN IF one.exc THEN one
                  ELSE [tr |-> one.tr \o rest.tr, exc |-> rest.exc]
          ELSE Done(<<Log("error", "step", i)>>)

\* perform(), type 'macro': for i, a in enumerate(action.payload)
MacroSteps(steps, i, env) ==
  IF i > Len(steps) THEN Done(<<>>)
  ELSE LET a == steps[i]
           one == IF a.k = "dict" /\ a.hasType
                  THEN Perform(Action(a.type, a.payload), env)
                  ELSE Done(<<Log("error", "step", i)>>)
       IN IF one.exc THEN one
          ELSE LET rest == MacroSteps(steps, i + 1, env)
               IN [tr |-> one.tr \o rest.tr, exc |-> rest.exc]

\* the global PYAUTOGUI_AVAILABLE: bound to True when the import of
\* pyautogui succeeded; when it failed the except clause assigns
\* REQUESTS_AVAILABLE instead and the name is left unbound
PyautoguiAvailable(env) == IF env.gui THEN "True" ELSE "unbound"

\* perform(): the body of its try block
PerformBody(action, env) ==
  LET type == action.type
      payload == action.payload
  IN CASE type = "none" -> Done(<<>>)
       [] type = "open_program" -> Prim(type, payload, env)
       [] type = "open_url" -> Prim(type, payload, env)
       [] type = "run_cmd" -> Prim(type, payload, env)
       [] type = "type_text" ->
            IF PyautoguiAvailable(env) = "unbound" THEN Raised(<<>>)
            ELSE IF PyautoguiAvailable(env) = "True"
            THEN Prim(type, payload, env)
            ELSE Done(<<Log("warn", "pyautogui", 0)>>)
       [] type = "hotkey" ->
            IF PyautoguiAvailable(env) = "unbound" THEN Raised(<<>>)
            ELSE IF PyautoguiAvailable(env) = "True"
            THEN IF payload.k \in {"list", "str"}
                 THEN Prim(type, payload, env)
                 ELSE Raised(<<>>)
            ELSE Done(<<Log("warn", "pyautogui", 0)>>)
       [] type = "script" ->
            IF PathExists(payload) THEN Prim(type, payload, env)
            ELSE Done(<<Log("error", "script", 0)>>)
       [] type = "macro" ->
            IF payload.k = "list" THEN MacroSteps(payload.v, 1, env)
            ELSE Done(<<Log("error", "macro", 0)>>)
       [] OTHER -> Done(<<>>)

\* perform() without its except clause
PerformUncaught(action, env) == PerformBody(action, env)

\* perform(action): try: ... except Exception as e: logger.error(...)
Perform(action, env) ==
  LET body == PerformBody(action, env)
  IN IF body.exc THEN Done(body.tr \o <<Log("error", "exc", 0)>>) ELSE body

\* the steps a macro list is drawn from
InnerMacro == Step("macro", List(<<Step("open_url", Str("inner"))>>))
StepPool == { Step("open_url", Str("p")), Step("run_cmd", Str("p")),
              Step("hotkey", Num), Step("script", Str("gone")),
              NoTypeStep, NotDictStep, InnerMacro }
MacroLists == UNION {[1..n -> StepPool] : n \in 0..MaxSteps}

\* the actions perform() is called with
Actions ==
  {Action(t, p) : t \in {"none", "open_program", "open_url", "run_cmd",
                         "type_text", "hotkey", "script", "macro", "other"},
                  p \in {Str("p"), Str("gone"), Num}}
    \cup {Action("macro", List(l)) : l \in MacroLists}
    \cup {Action("hotkey", List(<<NotDictStep, NotDictStep>>))}

\* the actions of the buttons pressed after it
Followers == {Action("open_url", Str("p")), Action("hotkey", Str("p"))}
Queues ==
  UNION {{<<a>> \o f : a \in Actions, f \in [1..n -> Followers]}
           : n \in 0..(MaxCalls - 1)}

\* what the platform offers: which primitives raise, and whether pyautogui
\* could be imported
Envs == [fail : SUBSET {"open_url", "run_cmd", "hotkey"}, gui : BOOLEAN]

\* the perform() calls the dispatch path is about to make
PerformCalls == [op : {"perform"}, queue : Queues, env : Envs]

\* the next call of perform(action) by the dispatch path
PerformCall ==
  /\ act.op = "perform"
  /\ ncall < Len(act.queue)
  /\ ~propagated
  /\ LET r == Perform(act.queue[ncall + 1], act.env)
     IN /\ effects' = Append(effects, r.tr)
        /\ propagated' = r.exc
  /\ ncall' = ncall + 1
  /\ UNCHANGED <<mgr, hnd, thr, loc, ui, io, dat, watch, stream, spos,
                 delivered, performed, act, ret>>

\* ------------------------------------------------------------ WindowManager
\* one piece of code after another
Then(r1, r2) ==
  IF r1.exc THEN r1 ELSE [tr |-> r1.tr \o r2.tr, exc |-> r2.exc]

\* a win32 / os primitive that raises when the platform makes it fail
Win32(name, in, tr) == IF name \in in.fail THEN Raised(<<>>) ELSE Done(tr)

\* _start_new(path)
StartNew(in) ==
  IF in.exists THEN Win32("launch", in, <<Do("launch", Str("p"))>>)
  ELSE Done(<<Log("error", "nofile", 0)>>)

\* _bring_to_front(hwnd): a failure is logged as a warning; the second
\* SetForegroundWindow of the fallback fails as the first did and is swallowed
BringToFront(hwnd, in) ==
  IF ~in.windows THEN Done(<<>>)
  ELSE IF in.fg = hwnd /\ "fg" \notin in.fail THEN Done(<<>>)
  ELSE IF in.fail \cap {"fg", "activate"} # {} THEN Done(<<Log("warn", "focus", 0)>>)
  ELSE Done(<<Do("activate", hwnd)>>)

\* target_hwnds.sort()
RECURSIVE Sorted(_)
Sorted(set) ==
  IF set = {} THEN <<>>
  ELSE LET least == CHOOSE x \in set : \A y \in set : x <= y
       IN <<least>> \o Sorted(set \ {least})

\* the handles found for the processes whose exe is the path (samefile raises
\* FileNotFoundError for a path that does not exist, and the process is skipped)
FoundHwnds(in) == IF in.exists THEN in.hwnds ELSE <<>>

\* target_hwnds: the found handles that have a title, sorted
TargetHwnds(in) == Sorted(Range(FoundHwnds(in)) \cap in.titled)

\* target_hwnds.index(current_fg)
IndexOf(seq, x) == CHOOSE i \in 1..Len(seq) : seq[i] = x

\* the cycle that goes from the last window back to the first
CycleWrap(hwnds, in) ==
  IF in.fg \in Range(hwnds)
  THEN BringToFront(hwnds[(IndexOf(hwnds, in.fg) % Len(hwnds)) + 1], in)
  ELSE BringToFront(hwnds[1], in)

\* toggle_application(): if current_fg in target_hwnds: ... else: ...
Cycle(hwnds, in) ==
  IF in.fg \in Range(hwnds)
  THEN IF IndexOf(hwnds, in.fg) = Len(hwnds)
       THEN Win32("minimize", in, <<Do("minimize", in.fg)>>)
       ELSE BringToFront(hwnds[IndexOf(hwnds, in.fg) + 1], in)
  ELSE BringToFront(hwnds[1], in)

\* toggle_application(exe_path)
ToggleApplication(in) ==
  IF ~in.psutil \/ ~in.windows
  THEN Then(Done(<<Log("warn", "dependency", 0)>>), StartNew(in))
  ELSE IF "enum" \in in.fail
  THEN Then(Done(<<Log("error", "enum", 0)>>), StartNew(in))
  ELSE IF FoundHwnds(in) # <<>> /\ "text" \in in.fail THEN Raised(<<>>)
  ELSE IF TargetHwnds(in) = <<>> THEN StartNew(in)
  ELSE Then(Win32("fg", in, <<>>), Cycle(TargetHwnds(in), in))

\* the window handles, and the orders in which enumeration may find them
HwndLists ==
  {l \in UNION {[1..n -> 1..MaxWins] : n \in 0..MaxWins} :
     \A i, j \in 1..Len(l) : i # j => l[i] # l[j]}

\* the toggle invocations: what the desktop looks like, what is available
\* (PSUTIL_AVAILABLE, WINDOWS_AVAILABLE) and which primitive raises
ToggleCalls ==
  [op : {"toggle"}, hwnds : HwndLists, titled : SUBSET (1..MaxWins),
   fg : 0..MaxWins, exists : BOOLEAN, psutil : BOOLEAN, windows : BOOLEAN,
   fail : {{}} \cup {{q} : q \in {"enum", "text", "fg", "minimize",
                                  "activate", "launch"}}]

\* one call of toggle_application
ToggleCall ==
  /\ act.op = "toggle"
  /\ ncall = 0
  /\ LET r == ToggleApplication(act)
     IN /\ effects' = <<r.tr>>
        /\ propagated' = r.exc
  /\ ncall' = 1
  /\ UNCHANGED <<mgr, hnd, thr, loc, ui, io, dat, watch, stream, spos,
                 delivered, performed, act, ret>>

\* ------------------------------------------------------------ discovery
\* search_device(): the probe, and the reply it waits for
MESSAGE == "ESP32_DECK_DISCOVER"
DeckAck == "ESP32_DECK_ACK"

\* what a datagram is made of: the reply text, another text, white space, and
\* a byte that is not valid UTF-8
BadByte == "FF"

\* data.decode('utf-8', errors='ignore')
DecodeIgnore(data) == SelectSeq(data, LAMBDA b : b # BadByte)

\* data.decode('utf-8', errors='ignore').strip() == "ESP32_DECK_ACK"
IsAck(data) == Strip(DecodeIgnore(data)) = <<DeckAck>>

\* the searches: the datagrams that arrive, what recvfrom does once they have
\* all been received, and which call of the set-up raises, if any
Datagrams ==
  [data : {<<DeckAck>>, <<DeckAck, NL>>, <<" ", DeckAck>>, <<BadByte, DeckAck>>,
           <<DeckAck, BadByte, " ">>, <<DeckAck, "x">>, <<"x", DeckAck>>,
           <<DeckAck, DeckAck>>, <<DeckAck, " ", DeckAck>>, <<"x">>, <<NL>>,
           <<>>},
   from : {"10.0.0.1", "10.0.0.2"}]
SearchCalls ==
  [op : {"search"},
   dgrams : UNION {[1..n -> Datagrams] : n \in 0..MaxDgrams},
   last : {"timeout", "error"},
   setup : {"ok", "socket", "sendto"}]

\* search_device(): socket(), setsockopt, settimeout, sendto(MESSAGE, ...)
SearchStart ==
  /\ act.op = "search"
  /\ effects = <<>>
  /\ effects' = <<IF act.setup = "ok" THEN <<Do("sendto", MESSAGE)>> ELSE <<>>>>
  /\ ret' = IF act.setup = "ok" THEN "none" ELSE "None"
  /\ UNCHANGED <<mgr, hnd, thr, loc, ui, io, dat, watch, stream, spos,
                 delivered, performed, act, propagated, ncall>>

\* the search returning the sender of whichever datagram comes first
SearchRecvAnyReply ==
  /\ act.op = "search"
  /\ Len(effects) = 1
  /\ ret = "none"
  /\ IF ncall < Len(act.dgrams)
     THEN /\ ncall' = ncall + 1
          /\ ret' = act.dgrams[ncall + 1].from
     ELSE /\ ret' = "None"
          /\ UNCHANGED ncall
  /\ UNCHANGED <<mgr, hnd, thr, loc, ui, io, dat, watch, stream, spos,
                 delivered, performed, act, effects, propagated>>

\* search_device(): one recvfrom(1024) of the while True loop
SearchRecv ==
  /\ act.op = "search"
  /\ Len(effects) = 1
  /\ ret = "none"
  /\ IF ncall < Len(act.dgrams)
     THEN /\ ncall' = ncall + 1
          /\ ret' = IF IsAck(act.dgrams[ncall + 1].data)
                    THEN act.dgrams[ncall + 1].from ELSE "none"
     ELSE /\ ret' = "None"
          /\ UNCHANGED ncall
  /\ UNCHANGED <<mgr, hnd, thr, loc, ui, io, dat, watch, stream, spos,
                 delivered, performed, act, effects, propagated>>

\* ------------------------------------------------------------ specification
\* the transports, their reader threads and the router's connection operations
Core ==
  \/ SerialDisconnect1 \/ SerialDisconnect2 \/ SerialDisconnect3
  \/ SerialSendCommand
  \/ SerialConnect1 \/ SerialConnect2 \/ SerialConnect3 \/ SerialConnect4
  \/ SerialConnect6
  \/ \E t \in Handles : SerialReaderExit(t)
  \/ \E t \in Handles : SerialReaderFinally1(t)
  \/ \E t \in Handles : SerialReaderFinally2(t)
  \/ \E t \in Threads : WifiDisconnect1(t)
  \/ \E t \in Threads : WifiDisconnect2(t)
  \/ \E t \in Threads : WifiDisconnect3(t)
  \/ \E t \in Threads : WifiDisconnect4(t)
  \/ \E t \in Threads : WifiDisconnect5(t)
  \/ \E t \in Threads : WifiDisconnect6(t)
  \/ WifiSendCommand
  \/ WifiConnect1 \/ WifiConnect2 \/ WifiConnect5
  \/ WifiConnectFailed
  \/ \E t \in Handles : WifiReaderExit(t)
  \/ \E h \in Handles : ChannelFails(h)
  \/ ConnectAny \/ ConnectSelected
  \/ DisconnectAny
  \/ \E v \in Kinds : ConnectionTypeChange(v)
  \/ OperationDone

\* the LED operations and a direct send
Sends ==
  \/ \E i \in LedInputs : SendLedColor(i[1], i[2])
  \/ \E word \in AllLedWords : SendAllLed(word)
  \/ \E k \in Kinds : SendDirect(k)

\* the reader threads' handling of inbound lines
Reads ==
  \/ \E t \in Handles : SerialReaderRead(t)
  \/ \E t \in Handles : SerialReaderDeliver(t)
  \/ \E t \in Handles : WifiReaderRead(t)
  \/ \E t \in Handles : WifiReaderAppend(t)
  \/ \E t \in Handles : WifiReaderLines(t)

\* connections and status notifications
Init == InitWatching({"status"}) /\ stream = <<>>
Next == Core
Spec == Init /\ [][Next]_vars

\* connections under fair scheduling: a thread that can take a step
\* eventually takes one; the control thread is idle until the user starts an
\* operation, and the environment owes no step
ThreadStep(t) ==
  Next /\ pc'[t] # pc[t] /\ pc[t].l \notin {"none", "idle"}
SpecFair == Spec /\ \A t \in Threads : WF_vars(ThreadStep(t))

\* connections, status notifications and the LED operations
InitSend == InitWatching({"io", "status"}) /\ stream = <<>>
NextSend == Core \/ Sends
SpecSend == InitSend /\ [][NextSend]_vars

\* connections and the lines read
InitRead == InitWatching({}) /\ stream = <<>>
NextRead == Core \/ Reads
SpecRead == InitRead /\ [][NextRead]_vars

\* the framing of one inbound byte stream, read in chunks
InitFrame == InitWatching({}) /\ stream \in Streams
NextFrame ==
  \/ \E n \in 1..(Len(stream) - spos) : WifiRecv(n)
  \/ \E n \in 1..(Len(stream) - spos) : SerialReadline(n)
  \/ \E s \in {<<ByteA, ByteNL>>, <<ByteNL, ByteA, ByteNL>>} : ConnectAgain(s)
SpecFrame == InitFrame /\ [][NextFrame]_vars

\* the dispatch of inbound lines
InitBtn == InitWatching({}) /\ stream = <<>>
NextBtn == \E text \in InboundLines : OnMessage(text)
SpecBtn == InitBtn /\ [][NextBtn]_vars

\* ActionManager.perform, called with any action
InitPerform == InitBase({}) /\ stream = <<>> /\ act \in PerformCalls
SpecPerform == InitPerform /\ [][PerformCall]_vars

\* WindowManager.toggle_application, called once
InitToggle == InitBase({}) /\ stream = <<>> /\ act \in ToggleCalls
SpecToggle == InitToggle /\ [][ToggleCall]_vars

\* WifiManager.search_device, called once
InitSearch == InitBase({}) /\ stream = <<>> /\ act \in SearchCalls
SpecSearch == InitSearch /\ [][SearchStart \/ SearchRecv]_vars

\* ------------------------------------------------------------ properties
\* a reader thread that is in its loop
LiveReader(c) == pc[c].l \in {"sr1", "sr2", "wr1", "wr2", "wr3"}
\* the connection's reader thread has ended and no operation is running
Unwound(c) == At(0, "idle") /\ pc[c].l = "done"
\* the control thread's current operation is op
Doing(op) == Len(arg) > 0 /\ arg[1] = op
\* the control thread is in a connect() of manager k called while connected
Reconnecting(k) == Doing("connect") /\ arg[2] = k /\ arg[3]
\* the step in which the control thread executes send_command of manager k
SendStep(k) == AtK(0, SendEntry(k), k) /\ pc'[0] # pc[0]

\* C1: for every connection established by a successful connect,
\* on_status_change(False, kind) is called exactly once for that connection,
\* whether it ends by disconnect(), by the reader's failure, or by both.
C1_ExactlyOneFalse ==
  \A c \in Handles : Unwound(c) => nfalse[c] = 1

\* a connection ended by disconnect() whose reader has unwound
C1_Ended ==
  \E c \in Handles : Unwound(c) /\ nfalse[c] = 2

\* C2: once a connection has ended and its reader has unwound, the last
\* status notification delivered for that transport is False (the True of the
\* connection comes before its False).
C2_LastStatusIsFalse ==
  \A c \in Handles :
    (Unwound(c) /\ Cur(hkind[c]) = c) => lastSt[hkind[c]] = "down"

\* a connection whose reader has unwound after the True was delivered
C2_Ended ==
  \E c \in Handles :
    Unwound(c) /\ Cur(hkind[c]) = c /\ lastSt[hkind[c]] = "down" /\ nfalse[c] = 1

\* C3: in every reachable state at most one of the Serial and the Wi-Fi
\* transport is connected.
C3_AtMostOneConnected == ~(isConnected[S] /\ isConnected[W])

\* Wi-Fi is connected after a switch from Serial, whose reader is still in
\* its loop
C3_Switched ==
  /\ isConnected[W] /\ ~isConnected[S]
  /\ \E c \in Handles : hkind[c] = S /\ LiveReader(c)

\* C4: for a configured button id whose action is not none, an inbound line
\* BTN:<id> causes exactly one perform call, with that button's action.
C4_OnePerformPerLine ==
  [][\A key \in ButtonKeys :
       (ButtonAction(key).type # "none"
          /\ delivered' = Append(delivered, BtnLine(key)))
       => performed' = Append(performed, ButtonAction(key))]_vars

\* three BTN lines of configured buttons with an action were dispatched
C4_Dispatched ==
  /\ delivered = <<BtnLine(<<"1">>), BtnLine(<<"1","2">>), BtnLine(<<"1">>)>>
  /\ performed = <<ButtonAction(<<"1">>), ButtonAction(<<"1","2">>),
                   ButtonAction(<<"1">>)>>

\* the lines on_message gets when the whole stream arrives in one chunk
RECURSIVE SerialOneChunk(_)
SerialOneChunk(bs) ==
  IF bs = <<>> THEN <<>>
  ELSE IF Has(bs, ByteNL)
       THEN Messages(<<Decode(SubSeq(bs, 1, First(bs, ByteNL)))>>)
            \o SerialOneChunk(SubSeq(bs, First(bs, ByteNL) + 1, Len(bs)))
       ELSE Messages(<<Decode(bs)>>)
WifiOneChunk(bs) == Messages(BufferLines(Decode(bs)))
OneChunk(k, bs) == IF k = S THEN SerialOneChunk(bs) ELSE WifiOneChunk(bs)

\* C5: whatever the split of the inbound byte stream into read chunks, the
\* lines passed to on_message are those of the stream read as one chunk.
C5_ChunkIndependent ==
  spos = Len(stream) => delivered = OneChunk(connType, stream)

\* a Wi-Fi chunk ended inside a line after an earlier line was delivered
C5_SplitInsideLine ==
  /\ connType = W /\ 0 < spos /\ spos < Len(stream)
  /\ readBuffer # <<>> /\ delivered # <<>>

\* C6: within a connection on_message is called in the order of the lines in
\* the inbound stream: none before an earlier one, none twice, none skipped.
C6_StrictFifo == ~fifoBad

\* two lines of one connection were delivered in order
C6_Delivered == \E h \in Handles : lastDel[h] = MaxLines /\ ~fifoBad

\* C7: send_command on a transport that is not connected returns False,
\* writes nothing, calls no callback and changes no state of the transports.
C7_SendNotConnected ==
  [][\A k \in Kinds :
       (SendStep(k) /\ ~isConnected[k])
       => /\ res' = "False"
          /\ pc'[0] = Head(stack) /\ stack' = Tail(stack)
          /\ out' = out /\ ui' = ui /\ mgr' = mgr /\ hnd' = hnd]_vars

\* a send on the Wi-Fi transport after its connection was closed by
\* disconnect() and its reader unwound
C7_SentAfterDisconnect ==
  /\ At(0, "ret") /\ Doing("send") /\ arg[2] = W /\ res = "False"
  /\ nconn = 1 /\ hkind[1] = W /\ pc[1].l = "done" /\ ~broken[1]
  /\ ~isConnected[W]

\* C8: connect() called while the instance is connected disconnects first and
\* then connects, ending connected with exactly one live reader thread.
C8_ReconnectEndsConnected ==
  \A k \in Kinds :
    (At(0, "ret") /\ Reconnecting(k) /\ res = "True" /\ ~broken[Cur(k)])
    => /\ isConnected[k]
       /\ Cardinality({c \in Handles : hkind[c] = k /\ LiveReader(c)}) = 1

\* a reconnect that ended connected with one live reader
C8_Reconnected ==
  \E k \in Kinds :
    /\ At(0, "ret") /\ Reconnecting(k) /\ res = "True"
    /\ isConnected[k]
    /\ Cardinality({c \in Handles : hkind[c] = k /\ LiveReader(c)}) = 1

\* the line of the LED command for the inputs of LedInputs
LedLine(key, color) ==
  IF key = <<"5">> /\ color = <<"#","F","F","0","0","A","A">>
  THEN <<"L","E","D",":","4",":","F","F","0","0","A","A">>
  ELSE IF key = <<"1","0">> /\ color = <<"0","0","F","F","0","0">>
       THEN <<"L","E","D",":","9",":","0","0","F","F","0","0">>
       ELSE <<>>

\* C9: _send_led_color_command(key, color) on a connected transport writes
\* exactly the line LED:<int(key) - 1>:<color without '#'> and a newline to
\* that transport's channel, and nothing to any other channel.
C9_LedLineSent ==
  [][\A k \in Kinds :
       (SendStep(k) /\ Doing("led")
          /\ isConnected[k] /\ CanWrite(chan[k]))
       => /\ out' = [out EXCEPT ![chan[k]] =
                       Append(@, LedLine(arg[2], arg[3]) \o <<NL>>)]
          /\ res' = "True"
          /\ pc'[0] = Ret]_vars

\* LED:4:FF00AA was written for ("5", "#FF00AA")
C9_Sent ==
  /\ At(0, "ret") /\ res = "True" /\ Doing("led")
  /\ arg[2] = <<"5">> /\ arg[3] = <<"#","F","F","0","0","A","A">>
  /\ \E h \in Handles :
       /\ out[h] # <<>> /\ isConnected[hkind[h]] /\ chan[hkind[h]] = h
       /\ out[h][Len(out[h])]
            = <<"L","E","D",":","4",":","F","F","0","0","A","A", NL>>
       /\ \A g \in Handles \ {h} : out[g] = <<>>

\* the step of an LED operation begun while neither transport is connected
LedCallOffline ==
  /\ At(0, "idle") /\ nsend' = nsend + 1 /\ arg'[1] \in {"led", "all"}
  /\ ~isConnected[S] /\ ~isConnected[W]

\* C10: with neither transport connected, _send_led_color_command and
\* _send_all_led_command write nothing, show exactly one warning, return, and
\* leave both transports as they are.
C10_OfflineWarns ==
  [][LedCallOffline
       => /\ warnings' = warnings + 1
          /\ out' = out /\ mgr' = mgr /\ hnd' = hnd
          /\ pc' = pc /\ stack' = stack]_vars

\* an LED operation was called after the connection had ended
C10_Warned ==
  /\ warnings = 1 /\ At(0, "idle") /\ Doing("all")
  /\ \E c \in Handles : pc[c].l = "done"

\* the perform() call number n has been made, and it was for a macro list
MacroCalled(n) ==
  /\ act.op = "perform"
  /\ ncall >= n
  /\ act.queue[n].type = "macro"
  /\ act.queue[n].payload.k = "list"

\* a well-formed macro step
ValidStep(a) == a.k = "dict" /\ a.hasType

\* what the steps i.. of a macro list leave behind when each is taken alone,
\* one after the other
RECURSIVE InListOrder(_, _, _)
InListOrder(steps, i, env) ==
  IF i > Len(steps) THEN <<>>
  ELSE (IF ValidStep(steps[i])
        THEN Perform(Action(steps[i].type, steps[i].payload), env).tr
        ELSE <<Log("error", "step", i)>>) \o InListOrder(steps, i + 1, env)

\* C11: perform on a macro list runs the valid steps in list order, each one
\* complete before the next; a malformed step at position k is logged and
\* skipped, and the valid steps after it are still executed
C11_MacroInOrder ==
  MacroCalled(1) =>
    /\ effects[1] = InListOrder(act.queue[1].payload.v, 1, act.env)
    /\ ~propagated

\* a macro with a malformed step between two valid ones has run
C11_SkippedOne ==
  /\ MacroCalled(1)
  /\ Len(act.queue[1].payload.v) = 3
  /\ effects[1] = <<Do("open_url", Str("p")), Log("error", "step", 2),
                    Do("run_cmd", Str("p"))>>

\* the primitive or the payload handling of call number n raised
CallFailed(n) == PerformBody(act.queue[n], act.env).exc

\* C12: perform never lets an exception reach its caller, whatever the kind
\* and the payload of the action and whichever primitive raises: the call
\* returns, the failure is logged as an error, and the dispatch path goes on
\* to the next call
C12_NeverPropagates ==
  act.op = "perform" =>
    /\ ~propagated
    /\ \A n \in 1..ncall :
         CallFailed(n) => Log("error", "exc", 0) \in Range(effects[n])

\* a call failed and the call after it ran its primitive
C12_NextHandled ==
  /\ act.op = "perform"
  /\ ncall = 2
  /\ CallFailed(1)
  /\ Log("error", "exc", 0) \in Range(effects[1])
  /\ effects[2] = <<Do("open_url", Str("p"))>>

\* step a of a macro list is itself a macro
NestedMacro(a) == ValidStep(a) /\ a.type = "macro" /\ a.payload.k = "list"

\* the primitives the steps of a list would run
StepEffects(steps) ==
  {Do(steps[j].type, steps[j].payload) : j \in {i \in 1..Len(steps) : ValidStep(steps[i])}}

\* C14: a macro step that is itself a macro is treated as kind none: none of
\* its sub-steps is executed, and the remaining steps of the outer macro run
C14_NestedIsNone ==
  MacroCalled(1) =>
    LET steps == act.queue[1].payload.v
    IN \A i \in 1..Len(steps) :
         NestedMacro(steps[i]) =>
           Range(effects[1]) \cap (StepEffects(steps[i].payload.v) \ StepEffects(steps)) = {}

\* a macro with a nested macro among its steps has been performed
C14_NestedCalled ==
  /\ MacroCalled(1)
  /\ \E i \in 1..Len(act.queue[1].payload.v) : NestedMacro(act.queue[1].payload.v[i])

\* a toggle invocation with introspection available, an executable that
\* exists and no primitive raising
ToggleWorks ==
  /\ act.op = "toggle"
  /\ ncall = 1
  /\ act.psutil /\ act.windows /\ act.exists /\ act.fail = {}

\* C13: with W the ordered windows of the target executable and F the
\* foreground window, one toggle invocation does exactly one thing: it
\* launches a new instance when W is empty, minimizes F when F is the last
\* element of W, activates W[i+1] when F = W[i] and i is not the last index,
\* and activates W[1] when F is not in W
C13_ToggleCycles ==
  ToggleWorks =>
    LET Wn == TargetHwnds(act)
        F == act.fg
    IN /\ ~propagated
       /\ Wn = <<>> => effects[1] = <<Do("launch", Str("p"))>>
       /\ Wn # <<>> /\ F = Wn[Len(Wn)] => effects[1] = <<Do("minimize", F)>>
       /\ \A i \in 1..(Len(Wn) - 1) :
            F = Wn[i] => effects[1] = <<Do("activate", Wn[i + 1])>>
       /\ Wn # <<>> /\ F \notin Range(Wn) => effects[1] = <<Do("activate", Wn[1])>>

\* with the windows [1, 2, 3] found in another order and 2 in the foreground,
\* window 3 has been activated
C13_SecondToThird ==
  /\ ToggleWorks
  /\ act.hwnds = <<3, 1, 2>>
  /\ TargetHwnds(act) = <<1, 2, 3>>
  /\ act.fg = 2
  /\ effects[1] = <<Do("activate", 3)>>

\* C20: no exception leaves toggle_application: without introspection it logs
\* a warning and launches, and a failing enumeration, foreground query,
\* minimize, activate or launch primitive is handled inside
C20_ToggleNeverThrows ==
  act.op = "toggle" =>
    /\ ~propagated
    /\ ncall = 1 /\ ~(act.psutil /\ act.windows) /\ act.exists /\ act.fail = {} =>
         effects[1] = <<Log("warn", "dependency", 0), Do("launch", Str("p"))>>

\* a toggle invocation in which a primitive raised has been made
C20_PrimitiveFailed ==
  /\ act.op = "toggle"
  /\ ncall = 1
  /\ act.fail # {}

\* the search has returned to its caller
SearchReturned == act.op = "search" /\ Len(effects) = 1 /\ ret # "none"

\* the datagrams received so far whose content passes for the reply
Replies(ok(_)) == {i \in 1..ncall : ok(act.dgrams[i].data)}

\* what the search answers when ok tells which content is the reply: the
\* sender of the first such datagram, which ends the search; no other
\* datagram ends it; without such a datagram, not-found
Answers(ok(_)) ==
  /\ ~propagated
  /\ act.op = "search" /\ Len(effects) = 1 /\ act.setup = "ok" =>
       effects[1] = <<Do("sendto", MESSAGE)>>
  /\ act.op = "search" /\ Len(effects) = 1 /\ ret = "none" => Replies(ok) = {}
  /\ SearchReturned =>
       IF Replies(ok) # {}
       THEN Replies(ok) = {ncall} /\ ret = act.dgrams[ncall].from
       ELSE ret = "None" /\ (act.setup = "ok" => ncall = Len(act.dgrams))

\* the content is the reply text, with nothing before or after it
ExactAck(data) == data = <<DeckAck>>

\* the content is the reply text once the bytes that are not valid UTF-8 are
\* dropped and the white space around the rest is removed
StrippedAck(data) ==
  \E i \in 1..Len(data) :
    /\ data[i] = DeckAck
    /\ \A j \in 1..Len(data) : j # i => data[j] \in {" ", NL, BadByte}

\* C15 (as stated): search_device sends one probe and returns the sender of
\* the first received datagram whose content is ESP32_DECK_ACK; datagrams
\* with any other content are ignored and do not end the search; on timeout
\* it returns not-found; it never raises
C15_ExactTokenEndsSearch == Answers(ExactAck)

\* C15 (amended): the same, the reply being recognised after undecodable
\* bytes are dropped and surrounding white space is stripped
C15_StrippedTokenEndsSearch == Answers(StrippedAck)

\* a datagram with other content was ignored and the sender of the reply
\* that followed it was returned
C15_SecondReplyFound ==
  /\ SearchReturned
  /\ ncall = 2
  /\ act.dgrams[1].data = <<"x", DeckAck>>
  /\ act.dgrams[2].data = <<DeckAck>>
  /\ act.dgrams[1].from # act.dgrams[2].from
  /\ ret = act.dgrams[2].from

\* everything that follows the prefix BTN: in a line
Remainder(text) == SubSeq(text, Len(BTN) + 1, Len(text))

\* the perform call a lookup of the button id makes
LookupBy(id) == IF id \in ButtonKeys THEN <<ButtonAction(id)>> ELSE <<>>

\* C16: for a line that starts with BTN:, the button id that is looked up is
\* the entire remainder of the line, also when it contains ':'
C16_IdIsRemainder ==
  [][\A text \in InboundLines :
       delivered' = Append(delivered, text) /\ StartsWith(text, BTN)
       => performed' = performed \o LookupBy(Remainder(text))]_vars

\* a line whose remainder contains ':' has been dispatched
C16_ColonInId ==
  /\ delivered # <<>>
  /\ delivered[Len(delivered)] = BtnLine(<<"1", ":", "2">>)

\* the delivered lines that are BTN:<id> with the id of a configured button
KnownIdLines ==
  {i \in 1..Len(delivered) :
     StartsWith(delivered[i], BTN) /\ Remainder(delivered[i]) \in ButtonKeys}

\* C17: a BTN:<id> line whose id matches no configured button, and a line
\* that does not start with BTN:, never lead to a perform call
C17_UnknownIdIgnored == Len(performed) <= Cardinality(KnownIdLines)

\* a line with an unknown id and a line without the prefix have been
\* delivered, and nothing was performed
C17_UnknownDelivered ==
  /\ delivered = <<BtnLine(<<"1", "7">>), <<"L","E","D",":","1">>>>
  /\ performed = <<>>

\* send_command of manager k has returned False to the router
SendFailed(k) == At(0, "ret") /\ Doing("send") /\ arg[2] = k /\ res = "False"

\* manager k is connected and the write it is about to make raises
WriteFails(k) ==
  /\ isConnected[k] /\ chan[k] # 0
  /\ IF k = S THEN hstate[chan[k]] = "open" /\ broken[chan[k]]
     ELSE ~CanWrite(chan[k])

\* C18: a write failure during a send on a connected transport makes the
\* send return False and forces the transport to Disconnected, notifying the
\* status callback (the send goes through the transport's disconnect()); on
\* Serial as on Wi-Fi
C18_WriteFailureDisconnects ==
  [][\A k \in Kinds :
       SendStep(k) /\ WriteFails(k)
       => /\ res' = "False"
          /\ (~isConnected'[k] \/ pc'[0] = Pos(DisconnectEntry(k), k))]_vars

\* a send on a connected Serial transport whose write failed has returned
C18_SerialWriteFailed ==
  /\ SendFailed(S)
  /\ isConnected[S]
  /\ chan[S] # 0 /\ hstate[chan[S]] = "open" /\ broken[chan[S]]

\* connect() of manager k has returned False to the router
ConnectFailed(k) ==
  At(0, "ret") /\ Doing("connect") /\ arg[2] = k /\ res = "False"

\* C19: when connect() fails it returns False, the transport is Disconnected
\* when it returns, and the status callback has been told connected=false;
\* on both transports, and also when the instance was connected before
C19_FailedConnectDisconnects ==
  \A k \in Kinds :
    ConnectFailed(k) => ~isConnected[k] /\ lastSt[k] = "down"

\* a Serial connect() made while connected has failed
C19_SerialReconnectFailed ==
  /\ ConnectFailed(S)
  /\ Reconnecting(S)

\* call number n was made for a type_text or hotkey action, without pyautogui
KeysWithoutGui(n) ==
  /\ act.op = "perform"
  /\ ncall >= n
  /\ act.queue[n].type \in {"type_text", "hotkey"}
  /\ ~act.env.gui

\* C21: when pyautogui could not be imported, perform of a type_text action
\* and of a hotkey action logs a warning, injects no keystroke and returns
C21_NoGuiWarns ==
  \A n \in 1..MaxCalls :
    KeysWithoutGui(n) =>
      effects[n] = <<Log("warn", "pyautogui", 0)>> /\ ~propagated

\* a type_text action and a hotkey action were performed without pyautogui
C21_BothPerformed ==
  /\ KeysWithoutGui(1) /\ KeysWithoutGui(2)
  /\ act.queue[1].type = "type_text"
  /\ act.queue[2].type = "hotkey"
  /\ Len(effects) = 2

\* the execution of the valid macro step a fails: its primitive raises, its
\* payload has the wrong shape, pyautogui is missing, or its file is missing
StepFails(a, env) ==
  /\ ValidStep(a)
  /\ a.type # "macro"
  /\ \/ PerformBody(Action(a.type, a.payload), env).exc
     \/ a.type = "script" /\ ~PathExists(a.payload)

\* the error logged for it
FailureLog(a) ==
  IF a.type = "script" THEN Log("error", "script", 0) ELSE Log("error", "exc", 0)

\* C27: a macro step whose execution fails is caught and logged at that
\* step, and every later step of the macro is still executed, in order
C27_FailedStepDoesNotAbort ==
  MacroCalled(1) =>
    LET steps == act.queue[1].payload.v
        tr == effects[1]
    IN /\ ~propagated
       /\ \A k \in 1..Len(steps) :
            StepFails(steps[k], act.env) =>
              LET rest == InListOrder(steps, k + 1, act.env)
              IN /\ Len(tr) > Len(rest)
                 /\ SubSeq(tr, Len(tr) - Len(rest), Len(tr))
                      = <<FailureLog(steps[k])>> \o rest

\* a macro whose first step raised and whose second step had no file has
\* run its third step
C27_ThirdStepRan ==
  /\ MacroCalled(1)
  /\ Len(act.queue[1].payload.v) = 3
  /\ effects[1] = <<Log("error", "exc", 0), Log("error", "script", 0),
                    Do("run_cmd", Str("p"))>>

\* C22: a reader thread reads only from the handle of its own connection:
\* after disconnect() and a new connect() on the same manager, the reader of
\* the earlier connection never takes a line off the new connection's handle
C22_ReaderReadsOwnHandle ==
  \A t \in Handles : rdata[t] # <<>> => rdata[t][1] = t

\* after a disconnect() and a new connect() on the same manager, the reader
\* thread of the earlier connection is still in its loop
C22_EarlierReaderInLoop ==
  /\ nconn = 2 /\ hkind[1] = hkind[2]
  /\ hstate[1] = "closed" /\ hstate[2] = "open"
  /\ chan[hkind[2]] = 2 /\ isConnected[hkind[2]]
  /\ LiveReader(1) /\ LiveReader(2)

\* bytes that are characters on their own
Ascii(bs) == \A i \in 1..Len(bs) : bs[i] \in {ByteA, ByteSP, ByteNL}

\* C24: a new connection starts with an empty framing buffer: the lines
\* passed to on_message during a later Wi-Fi connection are those of the
\* bytes received on that connection, with nothing of an incomplete last line
\* of the earlier connection in them
C24_FreshBuffer ==
  (nconn >= 1 /\ connType = W /\ spos = Len(stream) /\ Ascii(stream))
    => delivered = WifiOneChunk(stream)

\* a later Wi-Fi connection has delivered all its lines, the earlier one
\* having ended inside a line
C24_LaterConnectionRead ==
  /\ nconn >= 1 /\ connType = W /\ spos = Len(stream)
  /\ delivered # <<>>
  /\ delivered # WifiOneChunk(stream)

Blank(bs) == \A i \in 1..Len(bs) : bs[i] \in {ByteSP, ByteNL}

ControlStep(l, k) == AtK(0, l, k) /\ pc'[0] # pc[0]

\* C23 (first line): when connect() has returned True, the first line written
\* to the new channel during the connect is CONNECTED.
C23_ConnectedFirst ==
  (At(0, "ret") /\ Doing("connect") /\ res = "True" /\ out[nconn] # <<>>)
    => out[nconn][1] = CONNECTED \o <<NL>>

\* C23 (last line): when disconnect() called on the control thread closes a
\* usable channel, DISCONNECT is the last line written to it.
C23_DisconnectLast ==
  [][\A c \in Handles :
       (hstate[c] = "open" /\ hstate'[c] = "closed" /\ ~broken[c]
          /\ (ControlStep("sd2", S) \/ ControlStep("wd4", W)))
       => /\ out'[c] # <<>>
          /\ out'[c][Len(out'[c])] = DISCONNECT \o <<NL>>]_vars

\* C23 (best effort): disconnect() called on the control thread ends with the
\* transport not connected and its channel closed, whether or not DISCONNECT
\* could be written.
C23_DisconnectCloses ==
  [][\A k \in Kinds :
       (ControlStep("sd3", S) /\ k = S) \/ (ControlStep("wd6", W) /\ k = W)
       => /\ ~isConnected'[k]
          /\ (chan'[k] = 0 \/ hstate'[chan'[k]] = "closed")]_vars

\* a second Wi-Fi connect() has returned True with lines written to its
\* channel
C23_SecondConnectWrote ==
  /\ At(0, "ret") /\ Doing("connect") /\ res = "True"
  /\ nconn = 2 /\ hkind[1] = W /\ hkind[2] = W
  /\ Len(out[2]) = 2

\* C25: a reader thread that is in its loop when disconnect() is called on the
\* control thread eventually leaves the loop, runs its cleanup and terminates.
C25_ReaderTerminates ==
  \A c \in Handles :
    (LiveReader(c) /\ (AtK(0, "sd2", hkind[c]) \/ AtK(0, "wd2", hkind[c])))
      ~> (pc[c].l = "done")

\* disconnect() has returned to an idle control thread while the reader of the
\* connection it ended is still in its loop
C25_ReturnedBeforeReader ==
  \E c \in Handles :
    /\ At(0, "idle") /\ LiveReader(c)
    /\ hstate[c] = "closed" /\ ~running[hkind[c]]

\* C28: disconnect() on a transport that has no open connection is a no-op:
\* as long as no connection was ever made, no status callback has been
\* invoked, nothing was written and the transports are as constructed.
C28_DisconnectIdleNoOp ==
  nconn = 0 =>
    /\ \A k \in Kinds : lastSt[k] = "none" /\ ~isConnected[k] /\ chan[k] = 0
    /\ uiLast[1] = "none"
    /\ \A h \in Handles : out[h] = <<>>

\* _disconnect_any has run both disconnect() calls before any connection was
\* made
C28_DisconnectAnyRan ==
  /\ At(0, "ret") /\ arg = <<>> /\ nconn = 0
  /\ \A k \in Kinds : lastSt[k] # "none"

\* C29: connect() returns True only when its CONNECTED line was written to the
\* new channel, and, the channel not having failed, the transport is then
\* connected with that channel open.
C29_TrueMeansConnected ==
  (At(0, "ret") /\ Doing("connect") /\ res = "True")
    => /\ \E i \in 1..Len(out[nconn]) : out[nconn][i] = CONNECTED \o <<NL>>
       /\ ~broken[nconn]
            => (isConnected[arg[2]] /\ chan[arg[2]] = nconn
                  /\ hstate[nconn] = "open")

\* connect() has returned True on a channel that failed before the handshake
\* could be written
C29_ReturnedTrueUnwritten ==
  /\ At(0, "ret") /\ Doing("connect") /\ res = "True"
  /\ nconn = 1 /\ broken[1] /\ out[1] = <<>>
  /\ lastSt[arg[2]] = "up"

\* connection 1 was ended by disconnect() on the control thread while it was
\* connected, connection 2 on the other transport is up, and the reader of
\* connection 1 has unwound (its cleanup has notified as well)
SwitchedOver ==
  /\ nconn = 2 /\ hkind[1] # hkind[2]
  /\ Unwound(1) /\ nfalse[1] = 2
  /\ isConnected[hkind[2]] /\ chan[hkind[2]] = 2 /\ hstate[2] = "open"
  /\ ~broken[2] /\ LiveReader(2)

\* C30: after a switch from one connected transport to the other, once the
\* readers of the first have unwound, the last notification delivered through
\* the shared status callback is (True, new transport).
C30_LastStatusIsNewTransport ==
  SwitchedOver => uiLast = <<"up", hkind[2]>>

\* a switch after which the header shows the new transport as connected
C30_SwitchShown ==
  SwitchedOver /\ uiLast = <<"up", hkind[2]>> /\ lastSt[hkind[1]] = "down"
====
